---- MODULE Spec2Model ----
(***************************************************************************)
(* ATS resume checker (src/main.py): text preprocessing, keyword           *)
(* extraction, match scoring, and the Streamlit script that is re-executed *)
(* from top to bottom on every user interaction.                           *)
(*                                                                         *)
(* A text is a sequence of one-character strings; a token is a sequence of *)
(* characters as well.  calculate_match_score is polymorphic in its tokens *)
(* and is exercised on its own with plain strings as tokens.               *)
(***************************************************************************)
EXTENDS Integers, Sequences, FiniteSets, TLC

VARIABLES
    NLTK_RESOURCES_READY,   \* module global set at line 65
    text,                   \* text argument / jd_text of the handler
    resume_text,            \* resume_text of the handler
    resume_tokens,          \* resume_tokens argument / resume_tokens_processed
    jd_keywords,            \* jd_keywords argument / jd_keywords_extracted
    min_freq,               \* min_freq argument
    top_n,                  \* top_n argument
    pc,                     \* "call" before a function is applied, "done" after; "app" in the script
    ret,                    \* value returned by the function applied
    initRuns,               \* executions of download_nltk_resources() in this process
    clicked,                \* the last script run was started by the Analyze button
    resume_input,           \* the resume widgets: source chosen and its content
    outcome                 \* what the last script run displayed

vars == <<NLTK_RESOURCES_READY, text, resume_text, resume_tokens, jd_keywords,
          min_freq, top_n, pc, ret, initRuns, clicked, resume_input, outcome>>

----------------------------------------------------------------------------
(* Bounds *)

MaxTextLen == 4      \* characters of a free text given to preprocess_text
MaxWords == 4        \* words of a text given to get_keywords
MaxResumeLen == 3    \* tokens of resume_tokens given to calculate_match_score
MaxJDLen == 4        \* tokens of jd_keywords given to calculate_match_score
MaxMinFreq == 2
MaxTopN == 2
MaxAppWords == 1     \* words of a text typed into the page
MaxRuns == 4         \* script runs followed in one process

----------------------------------------------------------------------------
(* Characters and Python string primitives *)

Chars == {"a", "n", "A", "1", "2", ",", " "}
Digits == {"1", "2"}
WordChars == {"a", "n", "A", "1", "2"}     \* characters matched by \w
SpaceChars == {" "}                        \* characters matched by \s

None == <<"<None>">>

Falsy(t) == t = <<>> \/ t = None           \* Python's "not text"

Min(a, b) == IF a < b THEN a ELSE b
Max(a, b) == IF a > b THEN a ELSE b

\* seq[:n]
Take(seq, n) ==
    IF n >= 0 THEN SubSeq(seq, 1, Min(n, Len(seq)))
    ELSE SubSeq(seq, 1, Max(Len(seq) + n, 0))

Range(seq) == {seq[i] : i \in DOMAIN seq}

SeqsUpTo(S, n) == UNION {[1..k -> S] : k \in 0..n}

UpperChars == {"A"}

lower_char(c) == IF c \in UpperChars THEN "a" ELSE c

str_lower_identity(t) == t

\* text.lower()
str_lower(t) == [i \in DOMAIN t |-> lower_char(t[i])]

\* re.sub(r'[^\w\s]', '', text)
re_sub_punct(t) == SelectSeq(t, LAMBDA c : c \in WordChars \/ c \in SpaceChars)

RECURSIVE SplitFrom(_, _, _)
SplitFrom(t, i, cur) ==
    IF i > Len(t)
    THEN IF cur = <<>> THEN <<>> ELSE <<cur>>
    ELSE IF t[i] \in SpaceChars
         THEN IF cur = <<>> THEN SplitFrom(t, i + 1, <<>>)
              ELSE <<cur>> \o SplitFrom(t, i + 1, <<>>)
         ELSE SplitFrom(t, i + 1, Append(cur, t[i]))

\* text.split()
str_split(t) == SplitFrom(t, 1, <<>>)

\* word.isdigit()
isdigit(word) == word # <<>> /\ \A i \in DOMAIN word : word[i] \in Digits

RECURSIVE str_join(_)
\* " ".join(words)
str_join(words) ==
    IF words = <<>> THEN <<>>
    ELSE IF Len(words) = 1 THEN words[1]
    ELSE words[1] \o <<" ">> \o str_join(Tail(words))

----------------------------------------------------------------------------
(* NLTK resources (lines 65-78) *)

\* The entries of stopwords.words('english') that can be spelled with Chars.
EnglishStopWords == {<<"a">>, <<"a", "n">>}

STOP_WORDS(ready) == IF ready THEN EnglishStopWords ELSE {}

\* word_tokenize: with the resources, NLTK's tokenizer, which may raise; on a
\* text of lowercase letters, digits and blanks that spells none of its
\* contractions it splits at the blanks.  Without them, the fallback of
\* lines 75-78.
word_tokenize(t, ready, raises) ==
    IF ready
    THEN IF raises THEN [exc |-> TRUE, val |-> <<>>]
         ELSE [exc |-> FALSE, val |-> str_split(t)]
    ELSE [exc |-> FALSE, val |-> IF Falsy(t) THEN <<>> ELSE str_split(t)]

\* the condition of the list comprehensions at lines 99 and 112-115
keep_token(word, ready) ==
    word \notin STOP_WORDS(ready) /\ (Len(word) > 1 \/ isdigit(word))

\* preprocess_text with the filter applied before the punctuation is removed
preprocess_text_reordered(t, ready, raises) ==
    IF Falsy(t) THEN <<>>
    ELSE LET tokens == SelectSeq(str_split(str_lower(t)), LAMBDA w : keep_token(w, ready))
             stripped == [i \in DOMAIN tokens |-> re_sub_punct(tokens[i])]
         IN  SelectSeq(stripped, LAMBDA w : w # <<>>)

preprocess_text(t, ready, raises) ==
    IF Falsy(t) THEN <<>>
    ELSE IF ~ready
    THEN LET t1 == str_lower(t)
             t2 == re_sub_punct(t1)
             tokens == str_split(t2)
         IN  SelectSeq(tokens, LAMBDA w : keep_token(w, ready))
    ELSE LET t1 == str_lower(t)
             t2 == re_sub_punct(t1)
             r == word_tokenize(t2, ready, raises)
             tokens == IF r.exc THEN str_split(t2) ELSE r.val
         IN  SelectSeq(tokens, LAMBDA w : keep_token(w, ready))

----------------------------------------------------------------------------
(* collections.Counter *)

\* Counter(seq)[w]
Count(seq, w) == Cardinality({i \in DOMAIN seq : seq[i] = w})

RECURSIVE Keys(_)
\* the keys of Counter(seq), in insertion (first-seen) order
Keys(seq) ==
    IF seq = <<>> THEN <<>>
    ELSE LET front == Keys(SubSeq(seq, 1, Len(seq) - 1))
             last == seq[Len(seq)]
         IN  IF last \in Range(front) THEN front ELSE Append(front, last)

\* items inserted into a list already sorted by descending count, behind the
\* entries of equal count
InsertDesc(sorted, x, counted) ==
    LET ahead == {i \in DOMAIN sorted : Count(counted, sorted[i]) >= Count(counted, x)}
        k == Cardinality(ahead)
    IN  SubSeq(sorted, 1, k) \o <<x>> \o SubSeq(sorted, k + 1, Len(sorted))

RECURSIVE SortByCountDesc(_, _)
\* sorted(items, key=lambda x: Counter(counted)[x], reverse=True): stable
SortByCountDesc(items, counted) ==
    IF items = <<>> THEN <<>>
    ELSE InsertDesc(SortByCountDesc(SubSeq(items, 1, Len(items) - 1), counted),
                    items[Len(items)], counted)

\* Counter(tokens).most_common(n), n an integer
most_common(tokens, n) ==
    IF n <= 0 THEN <<>> ELSE Take(SortByCountDesc(Keys(tokens), tokens), n)

----------------------------------------------------------------------------
(* get_keywords (lines 155-164) *)

oversample_none(n) == n

\* the number of candidates asked of most_common
oversample(n) == n * 2

keyword_ok_any(tokens, word, min) == Count(tokens, word) >= min

\* the condition of the list comprehension at line 163
keyword_ok(tokens, word, min) == Count(tokens, word) >= min /\ ~isdigit(word)

get_keywords(t, min, n, ready, raises) ==
    LET tokens == preprocess_text(t, ready, raises)
    IN  IF tokens = <<>> THEN <<>>
        ELSE LET keywords == SelectSeq(most_common(tokens, oversample(n)),
                                       LAMBDA w : keyword_ok(tokens, w, min))
             IN  Take(keywords, n)

----------------------------------------------------------------------------
(* Specification of preprocess_text alone *)

NoScore == [score |-> 0, matched |-> {}, missing |-> {}]

NoInput == [src |-> "none", content |-> <<>>]

InitPre ==
    /\ NLTK_RESOURCES_READY \in BOOLEAN
    /\ text \in SeqsUpTo(Chars, MaxTextLen) \cup {None}
    /\ resume_text = <<>>
    /\ resume_tokens = <<>>
    /\ jd_keywords = <<>>
    /\ min_freq = 1
    /\ top_n = 0
    /\ pc = "call"
    /\ ret = <<>>
    /\ initRuns = 0
    /\ clicked = FALSE
    /\ resume_input = NoInput
    /\ outcome = "none"

CallPreprocess ==
    /\ pc = "call"
    /\ \E raises \in BOOLEAN :
          ret' = preprocess_text(text, NLTK_RESOURCES_READY, raises)
    /\ pc' = "done"
    /\ UNCHANGED <<NLTK_RESOURCES_READY, text, resume_text, resume_tokens, jd_keywords,
                   min_freq, top_n, initRuns, clicked, resume_input, outcome>>

NextPre == CallPreprocess

SpecPre == InitPre /\ [][NextPre]_vars

\* C8: preprocess_text returns, for every text and in both modes, tokens that
\* are non-empty, lowercase, outside the stopword set, and longer than one
\* character or a single digit; an empty or None text gives the empty list.
C8_PreprocessTokens ==
    pc = "done" =>
        /\ \A i \in DOMAIN ret :
              /\ ret[i] # <<>>
              /\ \A j \in DOMAIN ret[i] : ret[i][j] \notin UpperChars
              /\ ret[i] \notin STOP_WORDS(NLTK_RESOURCES_READY)
              /\ Len(ret[i]) > 1 \/ (Len(ret[i]) = 1 /\ ret[i][1] \in Digits)
        /\ (text = <<>> \/ text = None) => ret = <<>>

C8_Witness ==
    /\ pc = "done"
    /\ text # None
    /\ \E i \in DOMAIN text : text[i] \in UpperChars
    /\ \E i \in DOMAIN ret : Len(ret[i]) > 1
    /\ \E i \in DOMAIN ret : Len(ret[i]) = 1

\* C9: preprocess_text applied to the space-joined tokens it returned gives
\* the same token sequence again, with the same stopword set.
C9_Idempotent ==
    pc = "done" =>
        \A raises \in BOOLEAN :
            preprocess_text(str_join(ret), NLTK_RESOURCES_READY, raises) = ret

C9_Witness ==
    /\ pc = "done"
    /\ Len(ret) >= 2
    /\ text # str_join(ret)

----------------------------------------------------------------------------
(* Specification of get_keywords alone *)

Words == {<<"1">>, <<"2">>, <<"n", "n">>, <<"n", "A", ",">>, <<"a", "n">>}

InitKw ==
    /\ NLTK_RESOURCES_READY \in BOOLEAN
    /\ text \in {str_join(ws) : ws \in SeqsUpTo(Words, MaxWords)}
    /\ resume_text = <<>>
    /\ resume_tokens = <<>>
    /\ jd_keywords = <<>>
    /\ min_freq \in 1..MaxMinFreq
    /\ top_n \in 0..MaxTopN
    /\ pc = "call"
    /\ ret = <<>>
    /\ initRuns = 0
    /\ clicked = FALSE
    /\ resume_input = NoInput
    /\ outcome = "none"

CallGetKeywords ==
    /\ pc = "call"
    /\ \E raises \in BOOLEAN :
          ret' = get_keywords(text, min_freq, top_n, NLTK_RESOURCES_READY, raises)
    /\ pc' = "done"
    /\ UNCHANGED <<NLTK_RESOURCES_READY, text, resume_text, resume_tokens, jd_keywords,
                   min_freq, top_n, initRuns, clicked, resume_input, outcome>>

NextKw == CallGetKeywords

SpecKw == InitKw /\ [][NextKw]_vars

\* the token stream get_keywords counts (the same for either tokenizer outcome)
Stream == preprocess_text(text, NLTK_RESOURCES_READY, FALSE)

\* the distinct non-numeric tokens of the stream with count >= min_freq
Qualifying == {w \in Range(Stream) : Count(Stream, w) >= min_freq /\ ~isdigit(w)}

\* C4: get_keywords returns at most top_n tokens, none purely numeric, each
\* occurring at least min_freq times in the preprocessed stream, none repeated.
C4_KeywordsBounded ==
    pc = "done" =>
        /\ Len(ret) <= top_n
        /\ \A i \in DOMAIN ret :
              /\ \E j \in DOMAIN ret[i] : ret[i][j] \notin Digits
              /\ Count(Stream, ret[i]) >= min_freq
        /\ \A i, j \in DOMAIN ret : i # j => ret[i] # ret[j]

C4_Witness ==
    /\ pc = "done"
    /\ top_n = 1
    /\ min_freq = 2
    /\ Len(ret) = 1
    /\ \E w \in Range(Stream) : isdigit(w) /\ Count(Stream, w) >= min_freq

\* C5 as stated: whenever at least top_n distinct non-numeric tokens have count
\* >= min_freq, get_keywords returns exactly top_n keywords.
C5_AlwaysTopN ==
    (pc = "done" /\ Cardinality(Qualifying) >= top_n) => Len(ret) = top_n

\* the purely numeric tokens that rank above the top_n-th qualifying token in
\* the frequency ranking of the whole stream
NumericAbove ==
    LET ranking == SortByCountDesc(Keys(Stream), Stream)
        good == {i \in DOMAIN ranking : ranking[i] \in Qualifying}
        nth == {i \in good : Cardinality({j \in good : j <= i}) = top_n}
    IN  {ranking[i] : i \in {j \in DOMAIN ranking :
                                /\ isdigit(ranking[j])
                                /\ \E k \in nth : j < k}}

\* C5 amended: whenever at least top_n distinct non-numeric tokens have count
\* >= min_freq and at most top_n purely numeric tokens rank above the top_n-th
\* of them, get_keywords returns exactly top_n keywords.
C5_TopNUnlessOutranked ==
    (pc = "done" /\ Cardinality(Qualifying) >= top_n
                 /\ Cardinality(NumericAbove) <= top_n) => Len(ret) = top_n

C5_Witness ==
    /\ pc = "done"
    /\ top_n = 2
    /\ Cardinality(Qualifying) >= top_n
    /\ Cardinality(NumericAbove) = 2
    /\ Len(ret) = 2

----------------------------------------------------------------------------
(* calculate_match_score (lines 125-153) *)

early_return_no_keywords(resume, jd) == jd = <<>>

\* the guard of line 130
early_return(resume, jd) == resume = <<>> \/ jd = <<>>

\* jd_keywords_filtered, line 137
jd_filter(jd, min) == {w \in Range(jd) : Count(jd, w) >= min}

missing_unfiltered(filtered, matched) == filtered

\* missing_keywords, line 143
missing_of(filtered, matched) == filtered \ matched

\* x / f rounded to the nearest integer, a tie to the even neighbour
RoundHalfEven(x, f) ==
    LET q == x \div f
        r == x % f
    IN  IF 2 * r < f THEN q
        ELSE IF 2 * r > f THEN q + 1
        ELSE IF q % 2 = 0 THEN q ELSE q + 1

score_truncated(m, f) == IF f = 0 THEN 0 ELSE (10000 * m) \div f

\* round((m / f) * 100, 2) if f else 0.0, in hundredths of a percent
score_of(m, f) == IF f = 0 THEN 0 ELSE RoundHalfEven(10000 * m, f)

\* the orders in which a set can be iterated
Orders(S) == {o \in [1..Cardinality(S) -> S] : Range(o) = S}

RECURSIVE Reverse(_)
Reverse(seq) == IF seq = <<>> THEN <<>> ELSE Append(Reverse(Tail(seq)), Head(seq))

top_by_lowest_freq(order, resume, n) ==
    Range(Take(Reverse(SortByCountDesc(order, resume)), n))

\* set(sorted(S, key=lambda x: resume_counter[x], reverse=True)[:top_n]), the
\* set S iterated in the given order (lines 150-151)
top_by_resume_freq(order, resume, n) ==
    Range(Take(SortByCountDesc(order, resume), n))

\* The values calculate_match_score can return: one for every order in which
\* the two sets are iterated by sorted().
calculate_match_score(resume, jd, min, n) ==
    IF early_return(resume, jd)
    THEN {[score |-> 0, matched |-> {}, missing |-> {}]}
    ELSE LET filtered == jd_filter(jd, min)
             matched == filtered \cap Range(Keys(resume))
             missing == missing_of(filtered, matched)
             score == score_of(Cardinality(matched), Cardinality(filtered))
         IN  IF n > 0
             THEN {[score |-> score,
                    matched |-> top_by_resume_freq(om, resume, n),
                    missing |-> top_by_resume_freq(ox, resume, n)] :
                      om \in Orders(matched), ox \in Orders(missing)}
             ELSE {[score |-> score, matched |-> matched, missing |-> missing]}

----------------------------------------------------------------------------
(* Specification of calculate_match_score alone *)

ResumeVocab == {"python", "developer", "sql"}
JDVocab == {"python", "sql", "java"}

InitScore ==
    /\ NLTK_RESOURCES_READY = TRUE
    /\ text = <<>>
    /\ resume_text = <<>>
    /\ resume_tokens \in SeqsUpTo(ResumeVocab, MaxResumeLen)
    /\ jd_keywords \in SeqsUpTo(JDVocab, MaxJDLen)
    /\ min_freq \in 1..MaxMinFreq
    /\ top_n \in (-1)..MaxTopN
    /\ pc = "call"
    /\ ret = NoScore
    /\ initRuns = 0
    /\ clicked = FALSE
    /\ resume_input = NoInput
    /\ outcome = "none"

CallMatchScore ==
    /\ pc = "call"
    /\ ret' \in calculate_match_score(resume_tokens, jd_keywords, min_freq, top_n)
    /\ pc' = "done"
    /\ UNCHANGED <<NLTK_RESOURCES_READY, text, resume_text, resume_tokens, jd_keywords,
                   min_freq, top_n, initRuns, clicked, resume_input, outcome>>

NextScore == CallMatchScore

SpecScore == InitScore /\ [][NextScore]_vars

\* F: the distinct jd_keywords whose count within jd_keywords is >= min_freq
F == {w \in JDVocab : Cardinality({i \in DOMAIN jd_keywords : jd_keywords[i] = w}) >= min_freq}

\* the distinct tokens of the resume
R == {resume_tokens[i] : i \in DOMAIN resume_tokens}

ResumeFreq(w) == Cardinality({i \in DOMAIN resume_tokens : resume_tokens[i] = w})

NonEmptyInputs == resume_tokens # <<>> /\ jd_keywords # <<>>

\* C1: matched and missing are disjoint and both lie within F, truncated or not.
C1_DisjointWithinFiltered ==
    pc = "done" =>
        /\ ret.matched \cap ret.missing = {}
        /\ ret.matched \cup ret.missing \subseteq F

C1_Witness ==
    /\ pc = "done"
    /\ top_n = 1
    /\ Cardinality(F) = 3
    /\ ret.matched # {}
    /\ ret.missing # {}
    /\ min_freq = 1

\* C2: for non-empty inputs the score is 100 * |F \cap R| / |F| rounded to two
\* decimals (here in hundredths: the nearest integer to 10000 * |F \cap R| / |F|),
\* 0 when F is empty, within [0, 100], whatever top_n; resume
\* [python, developer, sql] against [python, sql, java, python] scores 66.67.
C2_Score ==
    (pc = "done" /\ NonEmptyInputs) =>
        /\ F = {} => ret.score = 0
        /\ F # {} =>
              LET d == ret.score * Cardinality(F) - 10000 * Cardinality(F \cap R)
              IN  2 * d <= Cardinality(F) /\ 2 * (-d) <= Cardinality(F)
        /\ ret.score \in 0..10000
        /\ (/\ resume_tokens = <<"python", "developer", "sql">>
            /\ jd_keywords = <<"python", "sql", "java", "python">>
            /\ min_freq = 1) => ret.score = 6667

C2_Witness ==
    /\ pc = "done"
    /\ resume_tokens = <<"python", "developer", "sql">>
    /\ jd_keywords = <<"python", "sql", "java", "python">>
    /\ min_freq = 1
    /\ top_n = 1
    /\ ret.score = 6667
    /\ Cardinality(ret.matched) = 1

\* C3: with an empty resume_tokens or an empty jd_keywords the result is
\* exactly (0.0, {}, {}), for every min_freq and top_n.
C3_EmptyInput ==
    (pc = "done" /\ ~NonEmptyInputs) =>
        ret = [score |-> 0, matched |-> {}, missing |-> {}]

C3_Witness ==
    /\ pc = "done"
    /\ resume_tokens = <<>>
    /\ F # {}
    /\ ret = [score |-> 0, matched |-> {}, missing |-> {}]

----------------------------------------------------------------------------
(* The Streamlit script: every user interaction re-executes main.py from   *)
(* its first line to its last, in the same process.                        *)

JD_MIN_FREQ == 1
JD_TOP_N == 75
SCORE_MIN_FREQ == 1
SCORE_TOP_N == 75

AppWords == {<<"n", "n">>, <<"n", "A", ",">>, <<"1">>, <<"a", "n">>}
AppTexts == {str_join(ws) : ws \in SeqsUpTo(AppWords, MaxAppWords)}

Resources == {"stopwords", "punkt"}

\* what the resume widgets can hold (lines 190-200): nothing, pasted text, or
\* an uploaded file of some MIME type whose text the extractor yields
Sources == {"none", "paste", "pdf", "docx", "txt", "other"}

\* download_nltk_resources(): True iff every resource was found or could be
\* downloaded and verified; avail[r] is that outcome for resource r
download_nltk_resources(avail) == \A r \in Resources : avail[r]

\* the condition of line 204
nltk_gate(ready) == ~ready

Stopped(o, rt) ==
    {[outcome |-> o, resume_text |-> rt, jd_keywords |-> <<>>,
      resume_tokens |-> <<>>, ret |-> NoScore]}

\* The Analyze handler from the text checks on (lines 231-311).
analyze_texts(ready, jd, rt, rj, rr) ==
    IF jd = <<>> THEN Stopped("need_jd", rt)
    ELSE IF rt = <<>> THEN Stopped("empty_resume", rt)
    ELSE LET kws == get_keywords(jd, JD_MIN_FREQ, JD_TOP_N, ready, rj)
             toks == preprocess_text(rt, ready, rr)
         IN  IF kws = <<>> THEN Stopped("no_jd_keywords", rt)
             ELSE IF toks = <<>> THEN Stopped("no_resume_tokens", rt)
             ELSE {[outcome |-> "results", resume_text |-> rt, jd_keywords |-> kws,
                    resume_tokens |-> toks, ret |-> r] :
                      r \in calculate_match_score(toks, kws, SCORE_MIN_FREQ, SCORE_TOP_N)}

\* The Analyze handler (lines 203-311): the possible ends of one click.
\* extract_text_from_docx names the module docx, which line 1 does not bind.
analyze(ready, jd, input, rj, rr) ==
    IF nltk_gate(ready) THEN Stopped("cannot_analyze", <<>>)
    ELSE IF input.src = "docx" THEN Stopped("exception", <<>>)
    ELSE IF input.src = "other" THEN Stopped("unsupported_type", <<>>)
    ELSE IF input.src \in {"pdf", "txt"} THEN analyze_texts(ready, jd, input.content, rj, rr)
    ELSE IF input.src = "paste" /\ input.content # <<>>
         THEN analyze_texts(ready, jd, input.content, rj, rr)
    ELSE Stopped("need_resume", <<>>)

Init ==
    /\ NLTK_RESOURCES_READY = FALSE
    /\ text = <<>>
    /\ resume_text = <<>>
    /\ resume_tokens = <<>>
    /\ jd_keywords = <<>>
    /\ min_freq = SCORE_MIN_FREQ
    /\ top_n = SCORE_TOP_N
    /\ pc = "start"
    /\ ret = NoScore
    /\ initRuns = 0
    /\ clicked = FALSE
    /\ resume_input = NoInput
    /\ outcome = "none"

\* The part of a script run outside the button handler (lines 7-200 and
\* 313-318): the resources are checked again and the page is drawn.
RunWithoutClick(avail) ==
    /\ NLTK_RESOURCES_READY' = download_nltk_resources(avail)
    /\ outcome' = IF download_nltk_resources(avail) THEN "prompt" ELSE "nltk_failed"
    /\ initRuns' = initRuns + 1
    /\ clicked' = FALSE
    /\ pc' = "app"
    /\ resume_text' = <<>>
    /\ resume_tokens' = <<>>
    /\ jd_keywords' = <<>>
    /\ ret' = NoScore
    /\ UNCHANGED <<min_freq, top_n>>

\* The first script run of the process: the page is opened, the widgets are empty.
PageLoad ==
    /\ pc = "start"
    /\ initRuns < MaxRuns
    /\ \E avail \in [Resources -> BOOLEAN] : RunWithoutClick(avail)
    /\ UNCHANGED <<text, resume_input>>

\* The script run that follows an edit of the job description text area.
EditJobDescription ==
    /\ pc = "app"
    /\ initRuns < MaxRuns
    /\ \E avail \in [Resources -> BOOLEAN] : RunWithoutClick(avail)
    /\ \E jd \in AppTexts : text' = jd
    /\ UNCHANGED resume_input

\* The script run that follows a change of the resume widgets.
EditResume ==
    /\ pc = "app"
    /\ initRuns < MaxRuns
    /\ \E avail \in [Resources -> BOOLEAN] : RunWithoutClick(avail)
    /\ \E src \in Sources, content \in AppTexts :
          resume_input' = [src |-> src, content |-> IF src = "none" THEN <<>> ELSE content]
    /\ UNCHANGED text

\* A script run started by the Analyze button, on the widgets as they stand.
Analyze ==
    /\ pc = "app"
    /\ initRuns < MaxRuns
    /\ \E avail \in [Resources -> BOOLEAN], rj \in BOOLEAN, rr \in BOOLEAN :
          /\ NLTK_RESOURCES_READY' = download_nltk_resources(avail)
          /\ \E end \in analyze(download_nltk_resources(avail), text, resume_input, rj, rr) :
                /\ outcome' = end.outcome
                /\ resume_text' = end.resume_text
                /\ jd_keywords' = end.jd_keywords
                /\ resume_tokens' = end.resume_tokens
                /\ ret' = end.ret
    /\ initRuns' = initRuns + 1
    /\ clicked' = TRUE
    /\ UNCHANGED <<text, resume_input, min_freq, top_n, pc>>

Next == PageLoad \/ EditJobDescription \/ EditResume \/ Analyze

Spec == Init /\ [][Next]_vars

\* an Analyze run with a non-empty job description and a non-empty pasted resume
AnalyzeRequest ==
    /\ pc = "app"
    /\ clicked
    /\ text # <<>>
    /\ resume_input.src = "paste"
    /\ resume_input.content # <<>>

\* C6: with the initialization failed, an Analyze request with non-empty job
\* description and resume is not aborted: tokenization runs in degraded mode.
C6_DegradedStillAnalyzes ==
    (AnalyzeRequest /\ ~NLTK_RESOURCES_READY) =>
        outcome \in {"results", "no_jd_keywords", "no_resume_tokens"}

\* C7: download_nltk_resources executes at most once in the life of the process.
C7_InitAtMostOnce == initRuns <= 1

====
